---- MODULE Spec2Model ----
(***************************************************************************)
(* Model of parsers.py: the Grammar class (symbol registry, rule list,     *)
(* root) and its three analyses first, follow and ll_one.                  *)
(*                                                                         *)
(* A Symbol object is a record [kind, id].  Python compares Symbol objects *)
(* by identity; id is the position of the object in Grammar._syms, so two  *)
(* records are equal exactly when they are the same object.  The display   *)
(* name and the bold flag only feed __str__ and are left out.              *)
(*                                                                         *)
(* A call that raises is modelled by the field exc of its result:          *)
(* "" (returned), "AssertionError", "RecursionError" or "RuntimeError".    *)
(***************************************************************************)
EXTENDS Naturals, Sequences, FiniteSets

VARIABLES syms, rules, root, out

vars == <<syms, rules, root, out>>

(***************************************************************************)
(* Bounds of the model.                                                    *)
(***************************************************************************)
\* user symbols declared through non_terminal / terminal
MaxSyms == 2
\* size of the rule list: the sum over the rules of 1 + len(rhs)
MaxSize == 5

(***************************************************************************)
(* Symbol model.                                                           *)
(***************************************************************************)
NonTerminal(i) == [kind |-> "NonTerminal", id |-> i]

Terminal(i) == [kind |-> "Terminal", id |-> i]

Epsilon == [kind |-> "Epsilon", id |-> 1]

\* Python's None (the unset root, the argument of a call without one)
None == [kind |-> "None", id |-> 0]

\* an argument that is no Symbol at all (a str, say)
NotASymbol == [kind |-> "str", id |-> 0]

IsSymbol(s) == s.kind \in {"NonTerminal", "Terminal", "Epsilon"}

IsNonTerminal(s) == s.kind = "NonTerminal"

\* Epsilon is a subclass of Terminal
IsTerminal(s) == s.kind \in {"Terminal", "Epsilon"}

Rule(lhs, rhs) == [lhs |-> lhs, rhs |-> rhs]

\* the asserts of Rule.__init__ (rhs is always passed as a list here)
RuleOk(lhs, rhs) ==
    /\ IsNonTerminal(lhs)
    /\ \A j \in 1..Len(rhs) : IsSymbol(rhs[j])

epsilon == syms[1]

eof == syms[2]

Range(s) == {s[j] : j \in 1..Len(s)}

(***************************************************************************)
(* Results of calls.                                                       *)
(***************************************************************************)
\* a call that returned the set s
Ret(s) == [exc |-> "", val |-> s]

\* a call that raised e
Raise(e) == [exc |-> e, val |-> {}]

\* what the most recent call on the grammar returned or raised
Out(op, arg, check, exc, val, cells) ==
    [op |-> op, arg |-> arg, check |-> check, exc |-> exc, val |-> val,
     cells |-> cells]

(***************************************************************************)
(* The interpreter's call stack.  first and follow recurse without a       *)
(* guard, and the interpreter raises RecursionError once the stack holds   *)
(* sys.getrecursionlimit() frames (1000).  Both functions are              *)
(* deterministic and only read self._rules, so a call first(s) made while  *)
(* a call first(s) is active repeats the chain of calls that led to it     *)
(* without end and runs into that limit, while a chain that repeats no     *)
(* call is at most twice the number of nonterminals, plus two, deep.  The  *)
(* stack is therefore kept as the set of the active calls, and a call      *)
(* that is already active raises RecursionError.  No caller catches it.    *)
(***************************************************************************)
Frame(fn, sym) == [fn |-> fn, sym |-> sym]

(***************************************************************************)
(* The({e : v \in {call}}) is e with the local v bound to the value of     *)
(* call: the call is evaluated once, when it returns, and v is then only   *)
(* read.                                                                   *)
(***************************************************************************)
The(S) == CHOOSE res \in S : TRUE

(***************************************************************************)
(* Grammar.first                                                           *)
(***************************************************************************)
RECURSIVE First(_, _), FirstScan(_, _, _, _, _), FirstRules(_, _, _, _)

\* the inner loop "for s in rhs" from position j on, _first being acc
FirstScan(sym, rhs, j, acc, stack) ==
    IF j > Len(rhs)
    THEN [exc |-> "", val |-> acc, annullable |-> TRUE]
    ELSE IF rhs[j] = sym
    THEN [exc |-> "", val |-> acc, annullable |-> FALSE]
    ELSE The({
           IF s_first.exc # ""
           THEN [exc |-> s_first.exc, val |-> {}, annullable |-> FALSE]
           ELSE IF epsilon \notin s_first.val
           THEN [exc |-> "", val |-> acc \cup (s_first.val \ {epsilon}),
                 annullable |-> FALSE]
           ELSE FirstScan(sym, rhs, j + 1, acc \cup (s_first.val \ {epsilon}),
                          stack)
              : s_first \in {First(rhs[j], stack)}})

\* FirstRules without lines 110-111: a fully nullable rhs adds no epsilon
RECURSIVE FirstRulesNoEpsilon(_, _, _, _)

FirstRulesNoEpsilon(sym, i, acc, stack) ==
    IF i > Len(rules)
    THEN Ret(acc)
    ELSE IF rules[i].lhs # sym
    THEN FirstRulesNoEpsilon(sym, i + 1, acc, stack)
    ELSE The({
           IF sc.exc # ""
           THEN Raise(sc.exc)
           ELSE FirstRulesNoEpsilon(sym, i + 1, sc.val, stack)
              : sc \in {FirstScan(sym, rules[i].rhs, 1, acc, stack)}})

\* the outer loop "for lhs, rhs in self._rules" from rule i on
FirstRules(sym, i, acc, stack) ==
    IF i > Len(rules)
    THEN Ret(acc)
    ELSE IF rules[i].lhs # sym
    THEN FirstRules(sym, i + 1, acc, stack)
    ELSE The({
           IF sc.exc # ""
           THEN Raise(sc.exc)
           ELSE FirstRules(sym, i + 1,
                           IF sc.annullable THEN sc.val \cup {epsilon}
                                            ELSE sc.val,
                           stack)
              : sc \in {FirstScan(sym, rules[i].rhs, 1, acc, stack)}})

\* first(sym) called while the calls of `stack` are active
First(sym, stack) ==
    IF Frame("first", sym) \in stack
    THEN Raise("RecursionError")
    ELSE IF ~IsSymbol(sym)
    THEN Raise("AssertionError")
    ELSE IF IsTerminal(sym)
    THEN Ret({sym})
    ELSE FirstRules(sym, 1, {}, stack \cup {Frame("first", sym)})

(***************************************************************************)
(* Grammar.follow                                                          *)
(***************************************************************************)
RECURSIVE Follow(_, _), FollowScan(_, _, _, _), FollowOccs(_, _, _, _, _)
RECURSIVE FollowRules(_, _, _, _)

\* the loop "for ff in rhs[ii+1:]" from position j on, _follow being acc
FollowScan(rhs, j, acc, stack) ==
    IF j > Len(rhs)
    THEN [exc |-> "", val |-> acc, annulable |-> TRUE]
    ELSE The({
           IF _first.exc # ""
           THEN [exc |-> _first.exc, val |-> {}, annulable |-> FALSE]
           ELSE IF epsilon \notin _first.val
           THEN [exc |-> "", val |-> acc \cup (_first.val \ {epsilon}),
                 annulable |-> FALSE]
           ELSE FollowScan(rhs, j + 1, acc \cup (_first.val \ {epsilon}), stack)
              : _first \in {First(rhs[j], stack)}})

\* the loop "for ii, sym in enumerate(rhs)" of rule number i from position ii on
FollowOccs(non_term, i, ii, acc, stack) ==
    IF ii > Len(rules[i].rhs)
    THEN Ret(acc)
    ELSE IF rules[i].rhs[ii] # non_term
    THEN FollowOccs(non_term, i, ii + 1, acc, stack)
    ELSE The({
           IF sc.exc # ""
           THEN Raise(sc.exc)
           ELSE IF sc.annulable
           THEN The({
                  IF f.exc # ""
                  THEN Raise(f.exc)
                  ELSE FollowOccs(non_term, i, ii + 1, sc.val \cup f.val, stack)
                     : f \in {Follow(rules[i].lhs, stack)}})
           ELSE FollowOccs(non_term, i, ii + 1, sc.val, stack)
              : sc \in {FollowScan(rules[i].rhs, ii + 1, acc, stack)}})

\* the loop "for lhs, rhs in self._rules" from rule i on, then the root test
FollowRules(non_term, i, acc, stack) ==
    IF i > Len(rules)
    THEN Ret(IF non_term = root THEN acc \cup {eof} ELSE acc)
    ELSE IF non_term \notin Range(rules[i].rhs)
    THEN FollowRules(non_term, i + 1, acc, stack)
    ELSE The({
           IF oc.exc # ""
           THEN Raise(oc.exc)
           ELSE FollowRules(non_term, i + 1, oc.val, stack)
              : oc \in {FollowOccs(non_term, i, 1, acc, stack)}})

\* follow(non_term) called while the calls of `stack` are active
Follow(non_term, stack) ==
    IF Frame("follow", non_term) \in stack
    THEN Raise("RecursionError")
    ELSE IF ~IsNonTerminal(non_term)
    THEN Raise("AssertionError")
    ELSE FollowRules(non_term, 1, {}, stack \cup {Frame("follow", non_term)})

(***************************************************************************)
(* Grammar.ll_one                                                          *)
(*                                                                         *)
(* A Rule object is named by its position in self._rules.  A cell of the   *)
(* table is a record [nt, tt, rules]: table[nt][tt] = rules, the list      *)
(* applicable_rules.  "for tt in terms" walks a Python set, whose order    *)
(* the language leaves open, so when several cells of one nonterminal      *)
(* raise, the call may raise any of them: LlOne is the set of the          *)
(* outcomes.                                                               *)
(***************************************************************************)
RECURSIVE LlScan(_, _, _, _), LlRules(_, _, _, _, _), LlNts(_, _, _)
RECURSIVE LlRow(_, _, _, _)

non_terms == SelectSeq(syms, IsNonTerminal)

\* LlScan with line 154 comparing tt with the symbol itself instead of
\* looking it up in the symbol's first set
RECURSIVE LlScanLiteral(_, _, _, _)

LlScanLiteral(tt, rhs, j, stack) ==
    IF j > Len(rhs)
    THEN [exc |-> "", hit |-> FALSE, annullable |-> TRUE]
    ELSE The({
           IF s_first.exc # ""
           THEN [exc |-> s_first.exc, hit |-> FALSE, annullable |-> FALSE]
           ELSE IF tt = rhs[j]
           THEN [exc |-> "", hit |-> TRUE, annullable |-> TRUE]
           ELSE IF epsilon \notin s_first.val
           THEN [exc |-> "", hit |-> FALSE, annullable |-> FALSE]
           ELSE LlScanLiteral(tt, rhs, j + 1, stack)
              : s_first \in {First(rhs[j], stack)}})

\* the loop "for sym in rule.rhs" from position j on
LlScan(tt, rhs, j, stack) ==
    IF j > Len(rhs)
    THEN [exc |-> "", hit |-> FALSE, annullable |-> TRUE]
    ELSE The({
           IF s_first.exc # ""
           THEN [exc |-> s_first.exc, hit |-> FALSE, annullable |-> FALSE]
           ELSE IF tt \in s_first.val
           THEN [exc |-> "", hit |-> TRUE, annullable |-> TRUE]
           ELSE IF epsilon \notin s_first.val
           THEN [exc |-> "", hit |-> FALSE, annullable |-> FALSE]
           ELSE LlScan(tt, rhs, j + 1, stack)
              : s_first \in {First(rhs[j], stack)}})

\* LlRules without lines 160-161: a nullable rhs is never applied on a
\* terminal of follow(nt)
RECURSIVE LlRulesNoFollow(_, _, _, _, _)

LlRulesNoFollow(nt, tt, i, applicable_rules, stack) ==
    IF i > Len(rules)
    THEN [exc |-> "", rules |-> applicable_rules]
    ELSE IF rules[i].lhs # nt
    THEN LlRulesNoFollow(nt, tt, i + 1, applicable_rules, stack)
    ELSE The({
           IF sc.exc # ""
           THEN [exc |-> sc.exc, rules |-> <<>>]
           ELSE LlRulesNoFollow(nt, tt, i + 1,
                                IF sc.hit THEN Append(applicable_rules, i)
                                          ELSE applicable_rules,
                                stack)
              : sc \in {LlScan(tt, rules[i].rhs, 1, stack)}})

\* the loop "for rule in self._rules" from rule i on
LlRules(nt, tt, i, applicable_rules, stack) ==
    IF i > Len(rules)
    THEN [exc |-> "", rules |-> applicable_rules]
    ELSE IF rules[i].lhs # nt
    THEN LlRules(nt, tt, i + 1, applicable_rules, stack)
    ELSE The({
           IF sc.exc # ""
           THEN [exc |-> sc.exc, rules |-> <<>>]
           ELSE IF sc.annullable
           THEN The({
                  IF f.exc # ""
                  THEN [exc |-> f.exc, rules |-> <<>>]
                  ELSE LlRules(nt, tt, i + 1,
                               (IF sc.hit THEN Append(applicable_rules, i)
                                          ELSE applicable_rules)
                               \o (IF tt \in f.val THEN <<i>> ELSE <<>>),
                               stack)
                     : f \in {Follow(nt, stack)}})
           ELSE LlRules(nt, tt, i + 1,
                        IF sc.hit THEN Append(applicable_rules, i)
                                  ELSE applicable_rules,
                        stack)
              : sc \in {LlScan(tt, rules[i].rhs, 1, stack)}})

\* terms: the lookahead terminals of nt
LlTerms(nt, stack) ==
    The({
      IF terms.exc # ""
      THEN terms
      ELSE IF epsilon \in terms.val
      THEN The({
             IF f.exc # ""
             THEN f
             ELSE Ret((terms.val \ {epsilon}) \cup f.val)
                : f \in {Follow(nt, stack)}})
      ELSE terms
         : terms \in {First(nt, stack)}})

\* one pass of the body of "for tt in terms"
LlCell(nt, tt, check_conflicts, stack) ==
    The({
      IF c.exc # ""
      THEN [exc |-> c.exc, nt |-> nt, tt |-> tt, rules |-> <<>>]
      ELSE IF check_conflicts /\ Len(c.rules) > 1
      THEN [exc |-> "RuntimeError", nt |-> nt, tt |-> tt, rules |-> c.rules]
      ELSE [exc |-> "", nt |-> nt, tt |-> tt, rules |-> c.rules]
         : c \in {LlRules(nt, tt, 1, <<>>, stack)}})

Entry(c) == [nt |-> c.nt, tt |-> c.tt, rules |-> c.rules]

\* the rest of the loop body for nt, given its terms and the cells of its row
LlRow(k, table, check_conflicts, row) ==
    IF \E c \in row : c.exc # ""
    THEN {[exc |-> c.exc,
           cells |-> IF c.exc = "RuntimeError" THEN {Entry(c)} ELSE {}]
          : c \in {c \in row : c.exc # ""}}
    ELSE LlNts(k + 1, table \cup {Entry(c) : c \in row}, check_conflicts)

\* the loop "for nt in non_terms" from the k-th nonterminal on
LlNts(k, table, check_conflicts) ==
    IF k > Len(non_terms)
    THEN {[exc |-> "", cells |-> table]}
    ELSE UNION {
           IF terms.exc # ""
           THEN {[exc |-> terms.exc, cells |-> {}]}
           ELSE UNION {LlRow(k, table, check_conflicts, row) : row \in
                  {{LlCell(non_terms[k], tt, check_conflicts, {}) : tt \in terms.val}}}
           : terms \in {LlTerms(non_terms[k], {})}}

\* the outcomes of ll_one(check_conflicts): the returned table as its set
\* of cells, or the exception raised (a RuntimeError with the cell it names)
LlOne(check_conflicts) == LlNts(1, {}, check_conflicts)

(***************************************************************************)
(* State machine.                                                          *)
(***************************************************************************)
Init ==
    /\ syms = <<Epsilon, Terminal(2)>>
    /\ rules = <<>>
    /\ root = None
    /\ out = Out("init", None, FALSE, "", {}, {})

\* the symbols _make_syms creates for n names
NewSyms(kind, n) == [j \in 1..n |-> [kind |-> kind, id |-> Len(syms) + j]]

non_terminal(n) ==
    /\ syms' = syms \o NewSyms("NonTerminal", n)
    /\ out' = Out("non_terminal", None, FALSE, "", Range(NewSyms("NonTerminal", n)), {})
    /\ UNCHANGED <<rules, root>>

terminal(n) ==
    /\ syms' = syms \o NewSyms("Terminal", n)
    /\ out' = Out("terminal", None, FALSE, "", Range(NewSyms("Terminal", n)), {})
    /\ UNCHANGED <<rules, root>>

r(lhs, rhs) ==
    LET rhs1 == IF Len(rhs) < 1 THEN <<epsilon>> ELSE rhs
    IN  /\ root' = IF root = None THEN lhs ELSE root
        /\ IF RuleOk(lhs, rhs1)
           THEN /\ rules' = Append(rules, Rule(lhs, rhs1))
                /\ out' = Out("r", lhs, FALSE, "", {}, {})
           ELSE /\ rules' = rules
                /\ out' = Out("r", lhs, FALSE, "AssertionError", {}, {})
        /\ UNCHANGED syms

first(sym) ==
    /\ \E res \in {First(sym, {})} :
          out' = Out("first", sym, FALSE, res.exc, res.val, {})
    /\ UNCHANGED <<syms, rules, root>>

follow(non_term) ==
    /\ \E res \in {Follow(non_term, {})} :
          out' = Out("follow", non_term, FALSE, res.exc, res.val, {})
    /\ UNCHANGED <<syms, rules, root>>

ll_one(check_conflicts) ==
    /\ \E o \in LlOne(check_conflicts) :
          out' = Out("ll_one", None, check_conflicts, o.exc, {}, o.cells)
    /\ UNCHANGED <<syms, rules, root>>

(***************************************************************************)
(* The caller: any sequence of calls, with arguments from small sets.      *)
(***************************************************************************)
RECURSIVE SizeFrom(_)

SizeFrom(i) == IF i > Len(rules) THEN 0 ELSE 1 + Len(rules[i].rhs) + SizeFrom(i + 1)

GrammarSize == SizeFrom(1)

\* the symbols the caller got from non_terminal / terminal
UserSyms == {syms[j] : j \in 3..Len(syms)}

LhsArgs == UserSyms \cup {NotASymbol}

\* the right-hand sides over these symbols that still fit the size bound
RhsArgs(size) ==
    UNION {[1..n -> UserSyms] : n \in 0..(size - GrammarSize - 1)}

QueryArgs == Range(syms) \cup {NotASymbol}

\* an accepted rule fits the size bound; a rejected call has a short rhs
RFits(lhs, rhs, size) ==
    IF RuleOk(lhs, rhs)
    THEN GrammarSize + 1 + (IF Len(rhs) < 1 THEN 1 ELSE Len(rhs)) <= size
    ELSE Len(rhs) <= 1

Next ==
    \/ \E n \in 1..MaxSyms : Len(syms) + n <= 2 + MaxSyms /\ non_terminal(n)
    \/ \E n \in 1..MaxSyms : Len(syms) + n <= 2 + MaxSyms /\ terminal(n)
    \/ \E lhs \in LhsArgs, rhs \in RhsArgs(MaxSize) \cup {<<>>, <<NotASymbol>>} :
          RFits(lhs, rhs, MaxSize) /\ r(lhs, rhs)
    \/ \E sym \in QueryArgs : first(sym)
    \/ \E sym \in QueryArgs : follow(sym)
    \/ \E check_conflicts \in BOOLEAN : ll_one(check_conflicts)

Spec == Init /\ [][Next]_vars

(***************************************************************************)
(* The caller that keeps to the contract of r and builds the table.        *)
(***************************************************************************)
NextBuild ==
    \/ \E n \in 1..MaxSyms : Len(syms) + n <= 2 + MaxSyms /\ non_terminal(n)
    \/ \E n \in 1..MaxSyms : Len(syms) + n <= 2 + MaxSyms /\ terminal(n)
    \/ \E lhs \in UserSyms, rhs \in RhsArgs(MaxSize) :
          RuleOk(lhs, rhs) /\ RFits(lhs, rhs, MaxSize) /\ r(lhs, rhs)
    \/ \E check_conflicts \in BOOLEAN : ll_one(check_conflicts)

SpecBuild == Init /\ [][NextBuild]_vars

(***************************************************************************)
(* The caller of the __main__ block: the sample grammar, declared and      *)
(* added in the order of the source, with queries at any moment.           *)
(***************************************************************************)
S == NonTerminal(3)

B == NonTerminal(4)

D == NonTerminal(5)

E == NonTerminal(6)

F == NonTerminal(7)

u == Terminal(8)

v == Terminal(9)

w == Terminal(10)

x == Terminal(11)

y == Terminal(12)

z == Terminal(13)

SampleRules ==
    << Rule(S, <<u, B, D, z>>),
       Rule(B, <<B, v>>),
       Rule(B, <<w>>),
       Rule(D, <<E, F>>),
       Rule(E, <<y>>),
       Rule(E, <<>>),
       Rule(F, <<x>>),
       Rule(F, <<>>) >>

NextSample ==
    \/ Len(syms) = 2 /\ non_terminal(5)
    \/ Len(syms) = 7 /\ terminal(6)
    \/ /\ Len(syms) = 13
       /\ Len(rules) < Len(SampleRules)
       /\ r(SampleRules[Len(rules) + 1].lhs, SampleRules[Len(rules) + 1].rhs)
    \/ \E sym \in Range(syms) : first(sym)
    \/ \E sym \in Range(syms) : follow(sym)
    \/ \E check_conflicts \in BOOLEAN : ll_one(check_conflicts)

SpecSample == Init /\ [][NextSample]_vars

(***************************************************************************)
(* Properties.                                                             *)
(***************************************************************************)
\* the sample grammar is complete
SampleBuilt == Len(rules) = Len(SampleRules)

\* no element of the list l occurs twice in it
NoRepeat(l) == \A p, q \in 1..Len(l) : p # q => l[p] # l[q]

\* C1: first(sym) returns a set for every symbol of every grammar, also when
\* nonterminals depend on each other's FIRST sets in a cycle.
C1_FirstReturns ==
    (out.op = "first" /\ IsSymbol(out.arg)) => out.exc = ""

\* C2: follow(nt) returns a set for every nonterminal of every grammar, also
\* when FOLLOW sets depend on each other in a cycle.
C2_FollowReturns ==
    (out.op = "follow" /\ IsNonTerminal(out.arg)) => out.exc = ""

\* C3 as claimed: on the sample grammar ll_one with conflict checking enabled
\* returns a table; no conflict error is raised.
C3_SampleBuildsWithoutConflict ==
    (SampleBuilt /\ out.op = "ll_one" /\ out.check) => out.exc = ""

\* C3 as amended: on the sample grammar ll_one with conflict checking enabled
\* raises the conflict error for cell (B, w) with the rules B -> B v and
\* B -> w (rules 2 and 3); with checking disabled it returns a table in which
\* (B, w) holds these two rules and every other cell holds exactly one rule.
C3_SampleConflictAtBw ==
    (SampleBuilt /\ out.op = "ll_one") =>
        IF out.check
        THEN /\ out.exc = "RuntimeError"
             /\ out.cells = {[nt |-> B, tt |-> w, rules |-> <<2, 3>>]}
        ELSE /\ out.exc = ""
             /\ [nt |-> B, tt |-> w, rules |-> <<2, 3>>] \in out.cells
             /\ \A c \in out.cells :
                   (c.nt # B \/ c.tt # w) => Len(c.rules) = 1

C3_Witness ==
    SampleBuilt /\ out.op = "ll_one" /\ out.check /\ out.exc = "RuntimeError"

\* the sets the sample grammar is documented to have
SampleFirst(nt) ==
    CASE nt = S -> {u}
      [] nt = B -> {w}
      [] nt = D -> {y, x, Epsilon}
      [] nt = E -> {y, Epsilon}
      [] nt = F -> {x, Epsilon}

SampleFollow(nt) ==
    CASE nt = S -> {Terminal(2)}
      [] nt = B -> {v, y, x, z}
      [] nt = D -> {z}
      [] nt = E -> {x, z}
      [] nt = F -> {z}

\* C4: on the sample grammar first and follow return exactly FIRST(S)={u},
\* FIRST(B)={w}, FIRST(D)={y,x,epsilon}, FIRST(E)={y,epsilon},
\* FIRST(F)={x,epsilon}, FOLLOW(S)={$}, FOLLOW(B)={v,y,x,z}, FOLLOW(D)={z},
\* FOLLOW(E)={x,z}, FOLLOW(F)={z}.
C4_SampleSets ==
    (SampleBuilt /\ IsNonTerminal(out.arg)) =>
        /\ out.op = "first" => (out.exc = "" /\ out.val = SampleFirst(out.arg))
        /\ out.op = "follow" => (out.exc = "" /\ out.val = SampleFollow(out.arg))

C4_Witness ==
    SampleBuilt /\ out.op = "follow" /\ out.arg = B /\ out.val = {v, y, x, z}

\* C5: for every grammar with at least one rule, follow(root) returns a set
\* that contains the end-of-input symbol.
C5_RootFollowHasEof ==
    (out.op = "follow" /\ Len(rules) >= 1 /\ out.arg = root
        /\ root = rules[1].lhs)
    => (out.exc = "" /\ eof \in out.val)

\* rules i and j are two rules of A whose right-hand sides start with the
\* terminal t
CommonStart(i, j, A, t) ==
    /\ i # j
    /\ rules[i].lhs = A /\ rules[j].lhs = A
    /\ rules[i].rhs[1] = t /\ rules[j].rhs[1] = t
    /\ t.kind = "Terminal"

\* C6: when a nonterminal A has two rules that start with the same terminal
\* t, ll_one with conflict checking enabled raises the conflict error for
\* (A, t), and with checking disabled it returns a table whose cell (A, t)
\* contains both rules.
C6_CommonStartConflict ==
    out.op = "ll_one" =>
        \A i, j \in 1..Len(rules) : \A A, t \in Range(syms) :
            CommonStart(i, j, A, t) =>
                IF out.check
                THEN /\ out.exc = "RuntimeError"
                     /\ \E c \in out.cells : c.nt = A /\ c.tt = t
                ELSE /\ out.exc = ""
                     /\ \E c \in out.cells :
                           c.nt = A /\ c.tt = t /\ {i, j} \subseteq Range(c.rules)

\* C7: after any sequence of declarations and r calls, rejected ones
\* included, the root is unset exactly when the rule list is empty and is
\* otherwise the lhs of the first rule.
C7_RootIsFirstLhs ==
    /\ (root = None) <=> (rules = <<>>)
    /\ rules # <<>> => root = rules[1].lhs

\* what the code's first gives for the symbol s
FirstOf(s) == First(s, {}).val

\* the symbols of rhs before position j are all nullable
PrefixNullable(rhs, j) == \A k \in 1..(j - 1) : epsilon \in FirstOf(rhs[k])

\* the same, for the scan of first(A), which stops at an occurrence of A
PrefixNullableTo(A, rhs, j) ==
    \A k \in 1..(j - 1) : rhs[k] # A /\ epsilon \in FirstOf(rhs[k])

\* C8 as claimed: in the table returned by ll_one(False) the rules of cell
\* (A, t) are exactly the rules A -> rhs for which t is produced by the scan
\* of rhs that first(A) uses, which stops at an occurrence of A, or rhs is
\* fully nullable in that scan and t is in follow(A).
C8_CellsBySelfStoppingScan ==
    (out.op = "ll_one" /\ ~out.check /\ out.exc = "") =>
        \A c \in out.cells :
            Range(c.rules) =
                {i \in 1..Len(rules) :
                    /\ rules[i].lhs = c.nt
                    /\ \/ \E j \in 1..Len(rules[i].rhs) :
                             /\ PrefixNullableTo(c.nt, rules[i].rhs, j)
                             /\ rules[i].rhs[j] # c.nt
                             /\ c.tt \in FirstOf(rules[i].rhs[j])
                       \/ /\ PrefixNullableTo(c.nt, rules[i].rhs,
                                              Len(rules[i].rhs) + 1)
                          /\ c.tt \in Follow(c.nt, {}).val}

\* C8 as amended: in the table returned by ll_one(False) the rules that
\* occur in cell (A, t) are exactly the rules A -> rhs for which t is in
\* first(s) of a symbol s of rhs whose predecessors in rhs all have epsilon
\* in their first set (an occurrence of A is scanned like any other symbol),
\* or every symbol of rhs has epsilon in its first set and t is in follow(A).
C8_CellsByFullScan ==
    (out.op = "ll_one" /\ ~out.check /\ out.exc = "") =>
        \A c \in out.cells :
            Range(c.rules) =
                {i \in 1..Len(rules) :
                    /\ rules[i].lhs = c.nt
                    /\ \/ \E j \in 1..Len(rules[i].rhs) :
                             /\ PrefixNullable(rules[i].rhs, j)
                             /\ c.tt \in FirstOf(rules[i].rhs[j])
                       \/ /\ PrefixNullable(rules[i].rhs, Len(rules[i].rhs) + 1)
                          /\ c.tt \in Follow(c.nt, {}).val}

\* a returned table with a cell that holds a rule whose rhs starts with the
\* cell's own nonterminal
C8_Witness ==
    /\ out.op = "ll_one" /\ ~out.check /\ out.exc = ""
    /\ \E c \in out.cells : \E p \in 1..Len(c.rules) :
          rules[c.rules[p]].rhs[1] = c.nt

(***************************************************************************)
(* The reference FIRST sets: the least sets closed under the textbook      *)
(* rules, as pairs [nt, t] meaning t is in FIRST(nt); t = epsilon means nt *)
(* derives the empty string.                                               *)
(***************************************************************************)
RefOf(s, R) == IF IsTerminal(s) THEN {s} ELSE {p.t : p \in {q \in R : q.nt = s}}

RefOfRhs(rhs, R) ==
    {t \in Range(syms) \ {epsilon} :
        \E j \in 1..Len(rhs) :
            /\ \A k \in 1..(j - 1) : epsilon \in RefOf(rhs[k], R)
            /\ t \in RefOf(rhs[j], R)}
    \cup (IF \A k \in 1..Len(rhs) : epsilon \in RefOf(rhs[k], R)
          THEN {epsilon} ELSE {})

RefStep(R) ==
    R \cup UNION {{[nt |-> rules[i].lhs, t |-> t] : t \in RefOfRhs(rules[i].rhs, R)}
                  : i \in 1..Len(rules)}

RECURSIVE RefClose(_)

RefClose(R) ==
    CHOOSE res \in {IF R2 = R THEN R ELSE RefClose(R2) : R2 \in {RefStep(R)}} : TRUE

RefFirst(nt) == {p.t : p \in {q \in RefClose({}) : q.nt = nt}}

\* C9: whenever first(N) returns for a nonterminal N, it returns the
\* reference FIRST set of N: the terminals that can begin a derivation from
\* N, plus epsilon iff N derives the empty string.
C9_FirstIsReference ==
    (out.op = "first" /\ IsNonTerminal(out.arg) /\ out.exc = "") =>
        out.val = RefFirst(out.arg)

\* C10: every cell of the table built by ll_one holds each rule at most
\* once, so a conflict error names two different rules.
C10_CellsHoldRulesOnce ==
    out.op = "ll_one" => \A c \in out.cells : NoRepeat(c.rules)

====
